---- MODULE Spec2Model ----
(***************************************************************************)
(* Model of src/app.py: the per-file analysis task (analyze_code_file),    *)
(* the helpers it uses (safe_generate, extract_json_from_text,             *)
(* heuristic_analyze), the dispatch loop and report steps of analyze_repo, *)
(* make_repo_summary, and the button handler that walks the repositories.  *)
(*                                                                         *)
(* Python values are tagged records, so that a field can hold None, an     *)
(* int, a str or a list as it can in the program.  A text is a sequence of *)
(* lexical tokens:                                                         *)
(*   "{" "}"   braces                                                      *)
(*   "s"       the member  "overall_score": 80                             *)
(*   "n"       the member  "overall_score": null                           *)
(*   "f"       the member  "file_name": "svc.py"                           *)
(*   "v"       the member  "verdict": "Good"                               *)
(*   "w"       the member  "verdict": "Excellent"                          *)
(*   "y"       the member  "summary": "fine"                               *)
(*   "b"       the member  "note": "}"    (a brace inside a string)        *)
(*   "cut"     the text    "note": "}     (the member "b" cut at its brace)*)
(*   "m"       the key     "meta":   (a value follows)                     *)
(*   "N"       the number  42                                              *)
(*   "L"       the list    ["verdict", "summary"]                          *)
(*   "S"       the string  "ok"                                            *)
(*   "x"       a word of prose (no brace, no back-tick)                    *)
(*   " "       white space                                                 *)
(*   "F"       the fence opener ```json        "E"  the fence ```          *)
(***************************************************************************)
EXTENDS Integers, Sequences, FiniteSets, TLC

\* ------------------------------------------------------------ Python values
None == [t |-> "NoneType"]
PyInt(n) == [t |-> "int", v |-> n]
PyStr(s) == [t |-> "str", v |-> s]
PyList(l) == [t |-> "list", v |-> l]
PyDict(d) == [t |-> "dict", v |-> d]

\* bool(x) of a Python value
Truthy(x) ==
    CASE x.t = "NoneType" -> FALSE
      [] x.t = "int" -> x.v # 0
      [] x.t = "str" -> Len(x.v) > 0
      [] x.t = "list" -> Len(x.v) > 0
      [] x.t = "dict" -> DOMAIN x.v # {}

\* isinstance(x, (int, float))
IsNumber(x) == x.t = "int"

\* ------------------------------------------------------------ json.loads
NoParse == [ok |-> FALSE]

\* str.strip()
RECURSIVE strip(_)
strip(toks) ==
    IF Len(toks) = 0 THEN toks
    ELSE IF Head(toks) = " " THEN strip(Tail(toks))
    ELSE IF toks[Len(toks)] = " " THEN strip(SubSeq(toks, 1, Len(toks) - 1))
    ELSE toks

\* the decoder skips the white space between the tokens of a JSON text
Significant(toks) == SelectSeq(toks, LAMBDA c : c # " ")

ScalarMembers == {"s", "n", "f", "v", "w", "y", "b"}

MemberOf(tok) ==
    CASE tok = "s" -> "overall_score" :> PyInt(80)
      [] tok = "n" -> "overall_score" :> None
      [] tok = "f" -> "file_name" :> PyStr("svc.py")
      [] tok = "v" -> "verdict" :> PyStr("Good")
      [] tok = "w" -> "verdict" :> PyStr("Excellent")
      [] tok = "y" -> "summary" :> PyStr("fine")
      [] tok = "b" -> "note" :> PyStr("}")

RECURSIVE ParseValueAt(_, _)
RECURSIVE ParseMembers(_, _, _)
\* one JSON value starting at position i
ParseValueAt(toks, i) ==
    IF i > Len(toks) THEN NoParse
    ELSE CASE toks[i] = "N" -> [ok |-> TRUE, next |-> i + 1, val |-> PyInt(42)]
           [] toks[i] = "L" ->
                [ok |-> TRUE, next |-> i + 1, val |-> PyList(<<"verdict", "summary">>)]
           [] toks[i] = "S" -> [ok |-> TRUE, next |-> i + 1, val |-> PyStr("ok")]
           [] toks[i] = "{" -> ParseMembers(toks, i + 1, <<>>)
           [] OTHER -> NoParse

\* the members of an object up to its closing brace; a repeated key keeps
\* the last value, as json.loads does
ParseMembers(toks, i, acc) ==
    IF i > Len(toks) THEN NoParse
    ELSE IF toks[i] = "}" THEN [ok |-> TRUE, next |-> i + 1, val |-> PyDict(acc)]
    ELSE IF toks[i] \in ScalarMembers
         THEN ParseMembers(toks, i + 1, MemberOf(toks[i]) @@ acc)
    ELSE IF toks[i] = "m"
         THEN LET r == ParseValueAt(toks, i + 1) IN
              IF r.ok THEN ParseMembers(toks, r.next, ("meta" :> r.val) @@ acc)
              ELSE NoParse
    ELSE NoParse

\* json.loads(text): the whole text must be one value
json_loads(text) ==
    LET r == ParseValueAt(Significant(text), 1) IN
    IF r.ok /\ r.next > Len(Significant(text))
    THEN [ok |-> TRUE, val |-> r.val]
    ELSE NoParse

\* ------------------------------------------------------------ extract_json_from_text
\* re.search(r"```json(.*?)```"): the first opener that has a fence after it,
\* and the shortest text up to that fence (an opener begins with a fence)
FenceMatch(toks) ==
    LET opens == {i \in 1..Len(toks) :
                     toks[i] = "F" /\ \E j \in (i + 1)..Len(toks) : toks[j] \in {"F", "E"}}
    IN IF opens = {} THEN [found |-> FALSE]
       ELSE LET i == CHOOSE a \in opens : \A b \in opens : a <= b
                j == CHOOSE a \in (i + 1)..Len(toks) :
                        /\ toks[a] \in {"F", "E"}
                        /\ \A b \in (i + 1)..(a - 1) : toks[b] \notin {"F", "E"}
            IN [found |-> TRUE, group |-> SubSeq(toks, i + 1, j - 1)]

\* the inner loop: the index at which the depth returns to zero, 0 if never;
\* the loop counts every brace character, the one inside the string of "b" too
RECURSIVE CloseIndex(_, _, _)
CloseIndex(toks, i, depth) ==
    IF i > Len(toks) THEN 0
    ELSE IF toks[i] = "{" THEN CloseIndex(toks, i + 1, depth + 1)
    ELSE IF toks[i] \in {"}", "b"}
         THEN IF depth - 1 = 0 THEN i ELSE CloseIndex(toks, i + 1, depth - 1)
    ELSE CloseIndex(toks, i + 1, depth)

\* candidate = text[s:i+1]
Candidate(toks, s, e) ==
    IF toks[e] = "b" THEN Append(SubSeq(toks, s, e - 1), "cut") ELSE SubSeq(toks, s, e)

\* the outer loop given up at the first candidate that does not parse
RECURSIVE ScanStarts_StopAtFirstFailure(_, _)
ScanStarts_StopAtFirstFailure(toks, s) ==
    IF s > Len(toks) THEN NoParse
    ELSE IF toks[s] # "{" THEN ScanStarts_StopAtFirstFailure(toks, s + 1)
    ELSE LET e == CloseIndex(toks, s, 0)
         IN IF e = 0 THEN ScanStarts_StopAtFirstFailure(toks, s + 1)
            ELSE json_loads(Candidate(toks, s, e))

\* the outer loop over the positions of "{", from position s on
RECURSIVE ScanStarts(_, _)
ScanStarts(toks, s) ==
    IF s > Len(toks) THEN NoParse
    ELSE IF toks[s] # "{" THEN ScanStarts(toks, s + 1)
    ELSE LET e == CloseIndex(toks, s, 0)
             r == IF e = 0 THEN NoParse ELSE json_loads(Candidate(toks, s, e))
         IN IF r.ok THEN r ELSE ScanStarts(toks, s + 1)

extract_json_from_text(text) ==
    IF ~Truthy(text) \/ text.t # "str" THEN None
    ELSE LET m == FenceMatch(text.v)
             fenced == IF m.found THEN json_loads(strip(m.group)) ELSE NoParse
             scanned == ScanStarts(text.v, 1)
             whole == json_loads(strip(text.v))
         IN IF fenced.ok THEN fenced.val
            ELSE IF scanned.ok THEN scanned.val
            ELSE IF whole.ok THEN whole.val
            ELSE None

\* ------------------------------------------------------------ safe_generate
\* What model.generate_content does with one call.  "raise": the call raises.
\* "text": resp.text is a str.  "candidate_str": resp.text is not usable and
\* candidates[0].content is a str.  "candidate_parts": content is a list of
\* parts.  "opaque": neither is usable and str(resp) is returned.
ReprOfResponse == <<"x">>

RECURSIVE JoinParts(_)
JoinParts(parts) ==
    IF Len(parts) = 0 THEN <<>> ELSE Head(parts) \o JoinParts(Tail(parts))

safe_generate(resp) ==
    CASE resp.shape = "raise" -> None
      [] resp.shape = "text" -> PyStr(resp.body)
      [] resp.shape = "candidate_str" -> PyStr(resp.body)
      [] resp.shape = "candidate_parts" ->
            IF Len(resp.parts) > 0 THEN PyStr(JoinParts(resp.parts))
            ELSE PyStr(ReprOfResponse)
      [] resp.shape = "opaque" -> PyStr(ReprOfResponse)

\* ------------------------------------------------------------ heuristic_analyze
\* A file content is the set of the patterns the analyzer looks for that occur
\* in it, and its number of lines.
basename(path) == path.base

Clamp(lo, hi, x) == IF x < lo THEN lo ELSE IF x > hi THEN hi ELSE x

Has(code, mark) == mark \in code.marks

NestedFor(code) == Has(code, "for..:\\n for")

Unfinished(code) == Has(code, "todo") \/ Has(code, "pass") \/ Has(code, "notimplementederror")

BarePrint(code) == Has(code, "print(") /\ ~Has(code, "logging")

BaseScore(code) ==
    Clamp(10, 95,
          70 - (IF Unfinished(code) THEN 20 ELSE 0)
             - (IF BarePrint(code) THEN 5 ELSE 0)
             - (IF code.nlines > 500 THEN 10 ELSE 0)
             - (IF NestedFor(code) THEN 15 ELSE 0)
             + (IF Has(code, "import unittest") \/ Has(code, "pytest") THEN 5 ELSE 0))

CorrectnessScore(code) == Clamp(5, 100, BaseScore(code) - 5)

EfficiencyScore(code) ==
    Clamp(5, 100, BaseScore(code) - (IF NestedFor(code) THEN 10 ELSE 5))

BestPracticesScore(code) ==
    Clamp(5, 100,
          BaseScore(code)
            + (IF Has(code, "\"\"\"") \/ Has(code, "''' ") \/ Has(code, "def ") THEN 5 ELSE 0))

\* int(round(total / 3.0)): a third is never a tie
RoundThird(total) == (total + 1) \div 3

OverallScore(code) ==
    RoundThird(CorrectnessScore(code) + EfficiencyScore(code) + BestPracticesScore(code))

HeuristicIssues(code) ==
    (IF Has(code, "todo") THEN <<"TODO markers left">> ELSE <<>>)
    \o (IF Has(code, "pass") \/ Has(code, "notimplementederror")
        THEN <<"Empty function(s) or NotImplemented">> ELSE <<>>)
    \o (IF NestedFor(code) THEN <<"Nested loops (possible inefficiency)">> ELSE <<>>)
    \o (IF BarePrint(code) THEN <<"Direct print statements (not logger)">> ELSE <<>>)

HeuristicRecs(code) ==
    (IF Has(code, "todo")
     THEN <<"Resolve TODOs and implement missing functionality">> ELSE <<>>)
    \o (IF Has(code, "pass") \/ Has(code, "notimplementederror")
        THEN <<"Implement function bodies">> ELSE <<>>)
    \o (IF NestedFor(code)
        THEN <<"Consider algorithmic optimizations or use vectorized operations">>
        ELSE <<>>)
    \o (IF BarePrint(code) THEN <<"Use logging module for production code">> ELSE <<>>)

\* an analyzer that also looks at the kind of file
heuristic_analyze_NameSensitive(code, file_name) ==
    [file_name |-> PyStr(basename(file_name)),
     correctness_score |-> PyInt(CorrectnessScore(code)),
     efficiency_score |-> PyInt(EfficiencyScore(code)),
     best_practices_score |-> PyInt(BestPracticesScore(code)),
     overall_score |-> PyInt(IF basename(file_name) = "a.py" THEN OverallScore(code)
                             ELSE OverallScore(code) - 1),
     key_issues |-> PyList(IF HeuristicIssues(code) = <<>>
                           THEN <<"No obvious issues found by heuristic">>
                           ELSE HeuristicIssues(code)),
     recommendations |-> PyList(IF HeuristicIssues(code) = <<>>
                                THEN <<"Run tests and unit tests to confirm correctness">>
                                ELSE HeuristicRecs(code)),
     analysis_source |-> PyStr("heuristic")]

heuristic_analyze(code, file_name) ==
    [file_name |-> PyStr(basename(file_name)),
     correctness_score |-> PyInt(CorrectnessScore(code)),
     efficiency_score |-> PyInt(EfficiencyScore(code)),
     best_practices_score |-> PyInt(BestPracticesScore(code)),
     overall_score |-> PyInt(OverallScore(code)),
     key_issues |-> PyList(IF HeuristicIssues(code) = <<>>
                           THEN <<"No obvious issues found by heuristic">>
                           ELSE HeuristicIssues(code)),
     recommendations |-> PyList(IF HeuristicIssues(code) = <<>>
                                THEN <<"Run tests and unit tests to confirm correctness">>
                                ELSE HeuristicRecs(code)),
     analysis_source |-> PyStr("heuristic")]

\* ------------------------------------------------------------ bounds and environment
MaxFiles == 2
MaxRepos == 2

\* the size ceiling of analyze_code_file, 500 * 1024
SizeCeiling == 512000

\* the worker ceiling of analyze_repo
WorkerCeiling == 4

FileNames == <<"a.py", "b.js", "c.go", "d.rb", "e.ts", "f.c", "g.h", "h.java">>

PathOf(i) == [dir |-> "repo/src", base |-> FileNames[i]]

\* what os.path.getsize can do
Sizes == {SizeCeiling, SizeCeiling + 1}

\* what f.read() can return
Codes == {[marks |-> {"def ", "\"\"\""}, nlines |-> 40],
          [marks |-> {"todo", "print(", "for..:\\n for"}, nlines |-> 501]}

TextResponse(toks) == [shape |-> "text", body |-> toks]

\* what one call of model.generate_content can do, in a file analysis
FileBehaviours ==
    {[shape |-> "raise"],
     [shape |-> "never"],
     [shape |-> "candidate_parts", parts |-> <<<<"{", "f">>, <<"}">>>>],
     TextResponse(<<>>),
     TextResponse(<<"x", "x">>),
     TextResponse(<<"F", " ", "{", "s", "f", "}", " ", "E">>),
     TextResponse(<<"x", "{", "n", "}">>),
     TextResponse(<<"{", "}">>),
     TextResponse(<<"N">>)}

\* what one call of model.generate_content can do, in a repository summary
SummaryBehaviours ==
    {[shape |-> "raise"],
     [shape |-> "never"],
     TextResponse(<<"F", "{", "v", "y", "}", "E">>),
     TextResponse(<<"{", "v", "}">>),
     TextResponse(<<"{", "w", "y", "}">>),
     TextResponse(<<"x">>),
     TextResponse(<<"L">>),
     TextResponse(<<"S">>),
     TextResponse(<<"N">>)}

VARIABLES
    hpc,              \* the handler: "button", "loop", "done", "rejected", "crashed"
    urls_left,        \* the urls typed; from the button on, the valid urls that
                      \* for url in valid_urls  has not finished with (head: the current one)
    rpc,              \* analyze_repo: "idle", "clone", "dispatch", "summary", "blocked", "render"
    candidate_files,  \* the paths, in the order of the walk
    max_workers,
    task,             \* per future: the state of its analyze_code_file call
    yielded,          \* the futures as_completed has yielded, in order
    report_data,
    scores,
    overall_score,
    repo_summary,
    calls             \* the calls made on one function alone: argument, and result once made

vars == <<hpc, urls_left, rpc, candidate_files, max_workers, task, yielded,
          report_data, scores, overall_score, repo_summary, calls>>

repoVars == <<candidate_files, max_workers, task, yielded, report_data, scores,
              overall_score, repo_summary>>

\* ------------------------------------------------------------ small helpers
Range(f) == {f[i] : i \in DOMAIN f}

Get(d, k) == IF k \in DOMAIN d THEN d[k] ELSE None

RECURSIVE Sum(_)
Sum(seq) == IF Len(seq) = 0 THEN 0 ELSE Head(seq) + Sum(Tail(seq))

Mean_FloorDivision(xs) ==
    IF Len(xs) = 0 THEN [num |-> 0, den |-> 1] ELSE [num |-> Sum(xs) \div Len(xs), den |-> 1]

\* float(np.mean(xs)) if xs else 0.0, as a fraction
Mean(xs) ==
    IF Len(xs) = 0 THEN [num |-> 0, den |-> 1] ELSE [num |-> Sum(xs), den |-> Len(xs)]

Min(a, b) == IF a < b THEN a ELSE b
Max(a, b) == IF a > b THEN a ELSE b

\* ------------------------------------------------------------ analyze_code_file
QueuedTask ==
    [pc |-> "queued", size |-> None, code |-> None, resp |-> None, ai_text |-> None,
     exc |-> None, reads |-> 0, genCalls |-> 0, ret |-> None]

\* return r: the locals are gone, the counters of the run stay
Returned(t, r) ==
    [t EXCEPT !.pc = "returned", !.size = None, !.code = None, !.resp = None,
              !.ai_text = None, !.exc = None, !.ret = r]

Raised(t, e) ==
    [t EXCEPT !.pc = "raised", !.size = None, !.code = None, !.resp = None,
              !.ai_text = None, !.exc = e]

\* the values of analysis_source; the program writes "ai" for a generated record
SourceGenerated == PyStr("ai")
SourceHeuristic == PyStr("heuristic")
SourceSkipped == PyStr("skipped")
SourceError == PyStr("error")

SkippedRecord(file_path) ==
    [file_name |-> PyStr(basename(file_path)),
     overall_score |-> None,
     key_issues |-> PyList(<<"File too large to analyze">>),
     recommendations |-> PyList(<<"Analyze large files locally or increase limit">>),
     analysis_source |-> SourceSkipped]

\* f"Error analyzing file: {e}" and f"Unhandled error: {e}"
ErrorText(e) ==
    CASE e = "[Errno 13]" -> "Error analyzing file: [Errno 13]"
      [] e = "MemoryError" -> "Unhandled error: MemoryError"

ErrorRecord(file_path, e) ==
    [file_name |-> PyStr(basename(file_path)),
     overall_score |-> None,
     key_issues |-> PyList(<<ErrorText(e)>>),
     recommendations |-> PyList(<<>>)]

SchemaKeys == <<"file_name", "correctness_score", "efficiency_score",
                "best_practices_score", "overall_score", "key_issues", "recommendations">>

EndsWithScore(k) ==
    k \in {"correctness_score", "efficiency_score", "best_practices_score", "overall_score"}

FillDefaults_ResetScores(d) ==
    [k \in DOMAIN d \cup Range(SchemaKeys) |->
        IF EndsWithScore(k) THEN None
        ELSE IF k \in DOMAIN d THEN d[k] ELSE PyList(<<>>)]

\* for k in [...]: if k not in parsed: parsed[k] = None if k.endswith("_score") else []
FillDefaults(d) ==
    [k \in DOMAIN d \cup Range(SchemaKeys) |->
        IF k \in DOMAIN d THEN d[k]
        ELSE IF EndsWithScore(k) THEN None ELSE PyList(<<>>)]

GeneratedRecord(d) ==
    [k \in DOMAIN FillDefaults(d) \cup {"analysis_source"} |->
        IF k = "analysis_source" THEN SourceGenerated ELSE FillDefaults(d)[k]]

\* if parsed and isinstance(parsed, dict)
UsableParsed(parsed) == Truthy(parsed) /\ parsed.t = "dict"

AfterGenerate_NeverGenerated(code, file_path, ai_text) ==
    heuristic_analyze(code, file_path)

\* lines 220-232, from the value safe_generate returned
AfterGenerate(code, file_path, ai_text) ==
    LET parsed == IF Truthy(ai_text) THEN extract_json_from_text(ai_text) ELSE None IN
    IF Truthy(ai_text) /\ UsableParsed(parsed)
    THEN GeneratedRecord(parsed.v)
    ELSE heuristic_analyze(code, file_path)

Running == {i \in DOMAIN task : task[i].pc \notin {"queued", "returned", "raised"}}

\* a worker of the pool takes the oldest queued call
T_Start(i) ==
    /\ rpc = "dispatch"
    /\ task[i].pc = "queued"
    /\ \A j \in 1..(i - 1) : task[j].pc # "queued"
    /\ Cardinality(Running) < max_workers
    /\ task' = [task EXCEPT ![i].pc = "getsize"]
    /\ UNCHANGED <<calls, hpc, urls_left, rpc, candidate_files, max_workers, yielded,
                   report_data, scores, overall_score, repo_summary>>

\* size = os.path.getsize(file_path), or the except: pass around it
T_GetSize(i) ==
    /\ rpc = "dispatch"
    /\ task[i].pc = "getsize"
    /\ \/ \E sz \in Sizes : task' = [task EXCEPT ![i].pc = "size_test", ![i].size = PyInt(sz)]
       \/ task' = [task EXCEPT ![i].pc = "open"]
    /\ UNCHANGED <<calls, hpc, urls_left, rpc, candidate_files, max_workers, yielded,
                   report_data, scores, overall_score, repo_summary>>

TooLarge_WrongCeiling(size) == size.v > SizeCeiling + 1

TooLarge(size) == size.v > SizeCeiling

\* if size > 500 * 1024: return the skipped record
T_SizeTest(i) ==
    /\ rpc = "dispatch"
    /\ task[i].pc = "size_test"
    /\ task' = [task EXCEPT ![i] =
                  IF TooLarge(task[i].size)
                  THEN Returned(task[i], SkippedRecord(candidate_files[i]))
                  ELSE [task[i] EXCEPT !.pc = "open", !.size = None]]
    /\ UNCHANGED <<calls, hpc, urls_left, rpc, candidate_files, max_workers, yielded,
                   report_data, scores, overall_score, repo_summary>>

\* with open(...) as f: code = f.read()
T_Read(i) ==
    /\ rpc = "dispatch"
    /\ task[i].pc = "open"
    /\ \/ \E c \in Codes :
            task' = [task EXCEPT ![i].pc = "generate", ![i].code = c,
                                 ![i].reads = task[i].reads + 1]
       \/ task' = [task EXCEPT ![i].pc = "except", ![i].exc = PyStr("[Errno 13]"),
                               ![i].reads = task[i].reads + 1]
    /\ UNCHANGED <<calls, hpc, urls_left, rpc, candidate_files, max_workers, yielded,
                   report_data, scores, overall_score, repo_summary>>

\* the call made again for as long as it gives nothing usable
T_Generate_Retry(i) ==
    /\ rpc = "dispatch"
    /\ task[i].pc = "generate"
    /\ task[i].genCalls < 3
    /\ \E r \in FileBehaviours :
          task' = [task EXCEPT ![i] =
                     IF r.shape = "never"
                     THEN [task[i] EXCEPT !.pc = "blocked", !.resp = r,
                                          !.genCalls = task[i].genCalls + 1]
                     ELSE IF ~Truthy(safe_generate(r))
                     THEN [task[i] EXCEPT !.genCalls = task[i].genCalls + 1]
                     ELSE [task[i] EXCEPT !.pc = "extract", !.resp = r,
                                          !.ai_text = safe_generate(r),
                                          !.genCalls = task[i].genCalls + 1]]
    /\ UNCHANGED <<calls, hpc, urls_left, rpc, candidate_files, max_workers, yielded,
                   report_data, scores, overall_score, repo_summary>>

\* ai_text = safe_generate(prompt): one call of the service, which may never answer
T_Generate(i) ==
    /\ rpc = "dispatch"
    /\ task[i].pc = "generate"
    /\ \E r \in FileBehaviours :
          task' = [task EXCEPT ![i] =
                     IF r.shape = "never"
                     THEN [task[i] EXCEPT !.pc = "blocked", !.resp = r,
                                          !.genCalls = task[i].genCalls + 1]
                     ELSE [task[i] EXCEPT !.pc = "extract", !.resp = r,
                                          !.ai_text = safe_generate(r),
                                          !.genCalls = task[i].genCalls + 1]]
    /\ UNCHANGED <<calls, hpc, urls_left, rpc, candidate_files, max_workers, yielded,
                   report_data, scores, overall_score, repo_summary>>

\* lines 221-232
T_Extract(i) ==
    /\ rpc = "dispatch"
    /\ task[i].pc = "extract"
    /\ task' = [task EXCEPT ![i] =
                  Returned(task[i],
                           AfterGenerate(task[i].code, candidate_files[i], task[i].ai_text))]
    /\ UNCHANGED <<calls, hpc, urls_left, rpc, candidate_files, max_workers, yielded,
                   report_data, scores, overall_score, repo_summary>>

\* lines 234-246: the file is read again; the heuristic record, or the error
\* record, or (fault) an exception raised while the error record is built
ExceptOutcome(t, file_path, fault) ==
    {Returned([t EXCEPT !.reads = t.reads + 1], heuristic_analyze(c, file_path)) : c \in Codes}
    \cup {Returned([t EXCEPT !.reads = t.reads + 1], ErrorRecord(file_path, t.exc.v))}
    \cup (IF fault THEN {Raised([t EXCEPT !.reads = t.reads + 1], PyStr("MemoryError"))}
          ELSE {})

T_Except(i, fault) ==
    /\ rpc = "dispatch"
    /\ task[i].pc = "except"
    /\ \E t \in ExceptOutcome(task[i], candidate_files[i], fault) :
          task' = [task EXCEPT ![i] = t]
    /\ UNCHANGED <<calls, hpc, urls_left, rpc, candidate_files, max_workers, yielded,
                   report_data, scores, overall_score, repo_summary>>

\* ------------------------------------------------------------ analyze_repo: the dispatch loop
UnhandledRecord(file_path, e) ==
    [file_name |-> PyStr(basename(file_path)),
     overall_score |-> None,
     key_issues |-> PyList(<<ErrorText(e)>>),
     recommendations |-> PyList(<<>>),
     analysis_source |-> SourceError]

Finished == {i \in DOMAIN task : task[i].pc \in {"returned", "raised"}}

\* res = fut.result(), or the record of the except branch
ResultOf(i) ==
    IF task[i].pc = "raised"
    THEN UnhandledRecord(candidate_files[i], task[i].exc.v)
    ELSE task[i].ret

PlaceRecord_DropFailures(data, res) ==
    IF Get(res, "analysis_source") \in {SourceGenerated, SourceHeuristic, SourceSkipped}
    THEN Append(data, res)
    ELSE data

\* report_data.append(res)
PlaceRecord(data, res) == Append(data, res)

\* one turn of  for fut in as_completed(futures)
Collect(i) ==
    /\ rpc = "dispatch"
    /\ i \in Finished
    /\ i \notin Range(yielded)
    /\ yielded' = Append(yielded, i)
    /\ report_data' = PlaceRecord(report_data, ResultOf(i))
    /\ scores' = IF IsNumber(Get(ResultOf(i), "overall_score"))
                 THEN Append(scores, ResultOf(i).overall_score.v)
                 ELSE scores
    /\ UNCHANGED <<calls, hpc, urls_left, rpc, candidate_files, max_workers, task,
                   overall_score, repo_summary>>

\* ------------------------------------------------------------ make_repo_summary
Contains(x, k) ==
    CASE x.t = "dict" -> k \in DOMAIN x.v
      [] x.t = "list" -> k \in Range(x.v)
      [] x.t = "str" -> x.v = k      \* a substring test; the one string is "ok"

\* "verdict" in parsed  raises TypeError when parsed is a number
InRaises(x) == x.t \notin {"dict", "list", "str"}

PresentScores(data) ==
    LET has == SelectSeq(data, LAMBDA r : IsNumber(Get(r, "overall_score")))
    IN [i \in 1..Len(has) |-> has[i].overall_score.v]

FallbackVerdict_StrictlyAbove(avg) ==
    IF avg.num > 80 * avg.den THEN "Good"
    ELSE IF avg.num > 50 * avg.den THEN "Moderate"
    ELSE "Poor"

FallbackVerdict(avg) ==
    IF avg.num >= 80 * avg.den THEN "Good"
    ELSE IF avg.num >= 50 * avg.den THEN "Moderate"
    ELSE "Poor"

LowCount(xs) == Len(SelectSeq(xs, LAMBDA s : s < 50))

\* f"{avg:.1f}": the number of tenths, a tie going to the even tenth
Format1(avg) ==
    LET t == (10 * avg.num) \div avg.den
        rem == 10 * avg.num - t * avg.den
    IN IF 2 * rem > avg.den THEN t + 1
       ELSE IF 2 * rem = avg.den THEN t + (t % 2)
       ELSE t

\* the summary text is kept as the values the f-string puts in it, and (v) the
\* sentence it ends with
FallbackSummary(data) ==
    LET xs == PresentScores(data) IN
    PyDict([verdict |-> PyStr(FallbackVerdict(Mean(xs))),
            summary |-> [t |-> "str", avg_text |-> Format1(Mean(xs)), low_count |-> LowCount(xs),
                         total_files |-> Len(data),
                         v |-> IF LowCount(xs) > 0
                               THEN "Recommend fixing issues in low-scoring files and adding tests."
                               ELSE "Repository appears generally healthy; run full test suite to confirm."]])

make_repo_summary(data, resp) ==
    LET ai_text == safe_generate(resp)
        parsed == IF Truthy(ai_text) THEN extract_json_from_text(ai_text) ELSE None
    IN IF Truthy(parsed) /\ InRaises(parsed) THEN [raised |-> TRUE]
       ELSE IF Truthy(parsed) /\ Contains(parsed, "verdict") /\ Contains(parsed, "summary")
            THEN [raised |-> FALSE, val |-> parsed]
       ELSE [raised |-> FALSE, val |-> FallbackSummary(data)]

\* ------------------------------------------------------------ analyze_repo and the handler
UrlLists == UNION {[1..n -> {"github", "other"}] : n \in 1..MaxRepos}

Init ==
    /\ hpc = "button"
    /\ urls_left \in UrlLists
    /\ rpc = "idle"
    /\ candidate_files = <<>>
    /\ max_workers = 0
    /\ task = <<>>
    /\ yielded = <<>>
    /\ report_data = <<>>
    /\ scores = <<>>
    /\ overall_score = Mean(<<>>)
    /\ repo_summary = None
    /\ calls = <<>>

\* valid_urls = [u for u in urls if validators.url(u) and "github.com" in u]
valid_urls(urls) == SelectSeq(urls, LAMBDA u : u = "github")

H_Button ==
    /\ hpc = "button"
    /\ urls_left' = valid_urls(urls_left)
    /\ IF Len(valid_urls(urls_left)) = 0
       THEN hpc' = "rejected" /\ UNCHANGED rpc
       ELSE hpc' = "loop" /\ rpc' = "clone"
    /\ UNCHANGED repoVars
    /\ UNCHANGED calls

\* the locals of analyze_repo are gone when it returns or raises
FreshRepo ==
    /\ candidate_files' = <<>>
    /\ max_workers' = 0
    /\ task' = <<>>
    /\ yielded' = <<>>
    /\ report_data' = <<>>
    /\ scores' = <<>>
    /\ overall_score' = Mean(<<>>)
    /\ repo_summary' = None

\* analyze_repo(url) returned: the next turn of  for url in valid_urls
NextUrl ==
    /\ urls_left' = Tail(urls_left)
    /\ IF Len(urls_left) = 1
       THEN hpc' = "done" /\ rpc' = "idle"
       ELSE rpc' = "clone" /\ UNCHANGED hpc
    /\ UNCHANGED calls

\* analyze_repo(url) raised: nothing catches it in the handler
Crash ==
    /\ hpc' = "crashed"
    /\ rpc' = "idle"
    /\ UNCHANGED <<urls_left, calls>>

PoolSize_OnePerFile(n) == Max(1, n)

\* max_workers = min(4, max(1, len(candidate_files)))
PoolSize(n) == Min(WorkerCeiling, Max(1, n))

\* lines 331-356: the clone, the walk, and the submission of every path
R_Clone ==
    /\ hpc = "loop"
    /\ rpc = "clone"
    /\ \/ /\ NextUrl
          /\ UNCHANGED repoVars
       \/ \E n \in 0..MaxFiles :
             /\ candidate_files' = [i \in 1..n |-> PathOf(i)]
             /\ max_workers' = PoolSize(n)
             /\ task' = [i \in 1..n |-> QueuedTask]
             /\ rpc' = "dispatch"
             /\ UNCHANGED <<calls, hpc, urls_left, yielded, report_data, scores,
                            overall_score, repo_summary>>

\* lines 372-373: the loop is over; the score, and the summary call
R_Summarize ==
    /\ rpc = "dispatch"
    /\ Len(yielded) = Len(candidate_files)
    /\ \E r \in SummaryBehaviours :
          IF r.shape = "never"
          THEN /\ rpc' = "blocked"
               /\ overall_score' = Mean(scores)
               /\ UNCHANGED <<calls, hpc, urls_left, candidate_files, max_workers, task,
                              yielded, report_data, scores, repo_summary>>
          ELSE IF make_repo_summary(report_data, r).raised
          THEN Crash /\ FreshRepo
          ELSE /\ rpc' = "render"
               /\ overall_score' = Mean(scores)
               /\ repo_summary' = make_repo_summary(report_data, r).val
               /\ UNCHANGED <<calls, hpc, urls_left, candidate_files, max_workers, task,
                              yielded, report_data, scores>>

ShownColumns == {"file_name", "analysis_source", "overall_score", "key_issues",
                 "recommendations"}

\* repo_summary.get(...) needs a dict; df[[...]] needs every shown column
RenderRaises(data, summary) ==
    \/ summary.t # "dict"
    \/ /\ Len(data) > 0
       /\ \E k \in ShownColumns : \A i \in 1..Len(data) : k \notin DOMAIN data[i]

\* lines 375-391: the page, the PDF, the return
R_Render ==
    /\ rpc = "render"
    /\ IF RenderRaises(report_data, repo_summary) THEN Crash ELSE NextUrl
    /\ FreshRepo

Next ==
    \/ H_Button
    \/ R_Clone
    \/ \E i \in DOMAIN task : T_Start(i)
    \/ \E i \in DOMAIN task : T_GetSize(i)
    \/ \E i \in DOMAIN task : T_SizeTest(i)
    \/ \E i \in DOMAIN task : T_Read(i)
    \/ \E i \in DOMAIN task : T_Generate(i)
    \/ \E i \in DOMAIN task : T_Extract(i)
    \/ \E i \in DOMAIN task : T_Except(i, TRUE)
    \/ \E i \in DOMAIN task : Collect(i)
    \/ R_Summarize
    \/ R_Render

Spec == Init /\ [][Next]_vars

\* the same program where nothing raises inside the last except block of
\* analyze_code_file
NextNoFault ==
    \/ H_Button
    \/ R_Clone
    \/ \E i \in DOMAIN task : T_Start(i)
    \/ \E i \in DOMAIN task : T_GetSize(i)
    \/ \E i \in DOMAIN task : T_SizeTest(i)
    \/ \E i \in DOMAIN task : T_Read(i)
    \/ \E i \in DOMAIN task : T_Generate(i)
    \/ \E i \in DOMAIN task : T_Extract(i)
    \/ \E i \in DOMAIN task : T_Except(i, FALSE)
    \/ \E i \in DOMAIN task : Collect(i)
    \/ R_Summarize
    \/ R_Render

SpecNoFault == Init /\ [][NextNoFault]_vars

\* ------------------------------------------------------------ one function called alone
\* No run of the handler is going on: the page waits for the button.
NoRun ==
    /\ hpc = "button"
    /\ urls_left = <<"github">>
    /\ rpc = "idle"
    /\ candidate_files = <<>>
    /\ max_workers = 0
    /\ task = <<>>
    /\ yielded = <<>>
    /\ report_data = <<>>
    /\ scores = <<>>
    /\ overall_score = Mean(<<>>)
    /\ repo_summary = None

runVars == <<hpc, urls_left, rpc, candidate_files, max_workers, task, yielded,
             report_data, scores, overall_score, repo_summary>>

PendingCall(fn, in) == [fn |-> fn, in |-> in, done |-> FALSE, out |-> None]

\* ---- make_repo_summary(report_data)
MaxScored == 3

ScoreValues == {None, PyInt(40), PyInt(45), PyInt(49), PyInt(50), PyInt(79), PyInt(80),
                PyInt(85), PyInt(90), PyInt(95)}

\* a record as make_repo_summary reads it: r.get("file_name"), r.get("overall_score")
ScoredRecord(i, x) ==
    [file_name |-> PyStr(FileNames[i]), overall_score |-> x,
     key_issues |-> PyList(<<>>), recommendations |-> PyList(<<>>),
     analysis_source |-> IF x = None THEN SourceSkipped ELSE SourceHeuristic]

\* the records of n files with the scores xs
ScoredReport(n, xs) == [i \in 1..n |-> ScoredRecord(i, xs[i])]

\* the service answers every call made here
AnsweringSummaryBehaviours == {r \in SummaryBehaviours : r.shape # "never"}

SummaryInit ==
    /\ NoRun
    /\ \E n \in 0..MaxScored, r \in AnsweringSummaryBehaviours :
          \E xs \in [1..n -> ScoreValues] :
             calls = <<PendingCall("make_repo_summary",
                                   [data |-> ScoredReport(n, xs), resp |-> r])>>

Call_make_repo_summary(k) ==
    /\ calls[k].fn = "make_repo_summary"
    /\ ~calls[k].done
    /\ calls' = [calls EXCEPT ![k].done = TRUE,
                              ![k].out = make_repo_summary(calls[k].in.data, calls[k].in.resp)]
    /\ UNCHANGED runVars

SummaryNext == \E k \in DOMAIN calls : Call_make_repo_summary(k)

SummarySpec == SummaryInit /\ [][SummaryNext]_vars

\* ---- extract_json_from_text(text)
MaxTokens == 4

ProseTokens == {"{", "}", "s", "x", "b", "F"}

Texts == UNION {[1..n -> ProseTokens] : n \in 0..MaxTokens}

ExtractInit ==
    /\ NoRun
    /\ \E t \in Texts : calls = <<PendingCall("extract_json_from_text", [text |-> t])>>

Call_extract_json_from_text(k) ==
    /\ calls[k].fn = "extract_json_from_text"
    /\ ~calls[k].done
    /\ calls' = [calls EXCEPT ![k].done = TRUE,
                              ![k].out = extract_json_from_text(PyStr(calls[k].in.text))]
    /\ UNCHANGED runVars

ExtractNext == \E k \in DOMAIN calls : Call_extract_json_from_text(k)

ExtractSpec == ExtractInit /\ [][ExtractNext]_vars

\* ---- heuristic_analyze(code, file_name)
HeuristicMarks == {"todo", "pass", "notimplementederror", "print(", "logging",
                   "for..:\\n for", "import unittest", "pytest", "\"\"\"", "''' ", "def "}

AllCodes == {[marks |-> ms, nlines |-> n] : ms \in SUBSET HeuristicMarks, n \in {500, 501}}

\* one call on any content, or two calls on the contents and paths of a run
HeuristicInit ==
    /\ NoRun
    /\ \/ \E c \in AllCodes :
             calls = <<PendingCall("heuristic_analyze", [code |-> c, file_name |-> PathOf(1)])>>
       \/ \E c1 \in Codes, c2 \in Codes, p1 \in 1..2, p2 \in 1..2 :
             calls = <<PendingCall("heuristic_analyze", [code |-> c1, file_name |-> PathOf(p1)]),
                       PendingCall("heuristic_analyze", [code |-> c2, file_name |-> PathOf(p2)])>>

Call_heuristic_analyze(k) ==
    /\ calls[k].fn = "heuristic_analyze"
    /\ ~calls[k].done
    /\ calls' = [calls EXCEPT ![k].done = TRUE,
                              ![k].out = heuristic_analyze(calls[k].in.code,
                                                           calls[k].in.file_name)]
    /\ UNCHANGED runVars

HeuristicNext == \E k \in DOMAIN calls : Call_heuristic_analyze(k)

HeuristicSpec == HeuristicInit /\ [][HeuristicNext]_vars

\* ---- the worker pool of analyze_repo
MaxPoolFiles == 5

\* analyze_repo has cloned a repository of n candidate files and submitted them
PoolInit ==
    /\ hpc = "loop"
    /\ urls_left = <<"github">>
    /\ rpc = "dispatch"
    /\ \E n \in 0..MaxPoolFiles :
          /\ candidate_files = [i \in 1..n |-> PathOf(i)]
          /\ max_workers = PoolSize(n)
          /\ task = [i \in 1..n |-> QueuedTask]
    /\ yielded = <<>>
    /\ report_data = <<>>
    /\ scores = <<>>
    /\ overall_score = Mean(<<>>)
    /\ repo_summary = None
    /\ calls = <<>>

\* the workers up to the reading of the file: a task that goes on to read the
\* file keeps its worker
PoolNext ==
    \/ \E i \in DOMAIN task : T_Start(i)
    \/ \E i \in DOMAIN task : T_GetSize(i)
    \/ \E i \in DOMAIN task : T_SizeTest(i)
    \/ \E i \in DOMAIN task : Collect(i)

PoolSpec == PoolInit /\ [][PoolNext]_vars

\* ------------------------------------------------------------ the claims
\* the for loop over as_completed is over, and analyze_repo has not returned
LoopOver == rpc \in {"blocked", "render"}

IsHeuristicRecord(r) == Get(r, "analysis_source") = SourceHeuristic

\* C1: when the dispatch loop is over, the i-th record of report_data is the
\* record of the i-th candidate path, whatever the order of completion.
C1_InputOrder ==
    LoopOver =>
        /\ Len(report_data) = Len(candidate_files)
        /\ \A k \in 1..Len(report_data) : yielded[k] = k /\ report_data[k] = ResultOf(k)

\* C2: when the dispatch loop is over, report_data holds as many records as
\* there are candidate paths, exactly one for each path, whatever the outcomes.
C2_OneRecordPerPath ==
    LoopOver =>
        /\ Len(report_data) = Len(candidate_files)
        /\ \A i \in 1..Len(candidate_files) :
              \E k \in 1..Len(report_data) :
                 /\ yielded[k] = i
                 /\ report_data[k] = ResultOf(i)
                 /\ \A j \in 1..Len(report_data) : yielded[j] = i => j = k

C2_Witness_EveryTaskFails ==
    /\ LoopOver
    /\ Len(candidate_files) = 2
    /\ task[1].pc = "raised"
    /\ task[2].pc = "returned" /\ "analysis_source" \notin DOMAIN task[2].ret

\* C3: every record of report_data has analysis_source, and it is one of
\* generated, heuristic, skipped, error.
C3_SourceAlwaysSet ==
    \A k \in 1..Len(report_data) :
        /\ "analysis_source" \in DOMAIN report_data[k]
        /\ report_data[k].analysis_source
              \in {SourceGenerated, SourceHeuristic, SourceSkipped, SourceError}

\* C4: in every record, overall_score is present (not None) exactly when
\* analysis_source is generated or heuristic.
C4_ScoreIffAnalysed ==
    \A k \in 1..Len(report_data) :
        (Get(report_data[k], "overall_score") # None)
            <=> (Get(report_data[k], "analysis_source") \in {SourceGenerated, SourceHeuristic})

\* C5: a call that finds the size above the ceiling returns, in that step, the
\* skipped record with no overall_score, having read the file zero times and
\* called the generation service zero times.
C5_OversizedIsSkipped ==
    [][\A i \in DOMAIN task :
          (task[i].pc = "size_test" /\ task[i].size.v > SizeCeiling /\ task'[i] # task[i])
              => /\ task'[i].pc = "returned"
                 /\ task'[i].ret.analysis_source = SourceSkipped
                 /\ task'[i].ret.overall_score = None
                 /\ task'[i].reads = 0
                 /\ task'[i].genCalls = 0]_task

C5_Witness_Skipped ==
    \E i \in DOMAIN task :
        /\ task[i].pc = "returned"
        /\ task[i].ret = SkippedRecord(candidate_files[i])
        /\ task[i].reads = 0 /\ task[i].genCalls = 0

\* the text the service gave, by the shape of its response
TextGiven(resp) ==
    CASE resp.shape = "text" -> resp.body
      [] resp.shape = "candidate_str" -> resp.body
      [] resp.shape = "candidate_parts" -> JoinParts(resp.parts)
      [] OTHER -> <<>>

ObjectExtracted(resp) ==
    /\ resp.shape # "raise"
    /\ Len(TextGiven(resp)) > 0
    /\ extract_json_from_text(PyStr(TextGiven(resp))).t = "dict"

NonEmptyObjectExtracted(resp) ==
    /\ ObjectExtracted(resp)
    /\ DOMAIN extract_json_from_text(PyStr(TextGiven(resp))).v # {}

\* C6 as stated: after the generation call of a file that was read, the record
\* is a generated one if an object was extracted from the text the call gave,
\* and is the heuristic record of the file content if the call failed, gave
\* empty text, or gave text from which no object is extracted.
C6_GeneratedOrHeuristic ==
    [][\A i \in DOMAIN task :
          (task[i].pc = "extract" /\ task'[i] # task[i])
              => /\ task'[i].pc = "returned"
                 /\ IF ObjectExtracted(task[i].resp)
                    THEN task'[i].ret.analysis_source = SourceGenerated
                    ELSE task'[i].ret = heuristic_analyze(task[i].code, candidate_files[i])]_task

\* C6 as amended: the same, with "a non-empty object" in place of "an object":
\* an empty object is treated as no object.
C6_GeneratedIffNonEmptyObject ==
    [][\A i \in DOMAIN task :
          (task[i].pc = "extract" /\ task'[i] # task[i])
              => /\ task'[i].pc = "returned"
                 /\ IF NonEmptyObjectExtracted(task[i].resp)
                    THEN task'[i].ret.analysis_source = SourceGenerated
                    ELSE task'[i].ret = heuristic_analyze(task[i].code, candidate_files[i])]_task

C6_Witness_BothEndings ==
    /\ Len(candidate_files) = 2
    /\ task[1].pc = "returned" /\ task[1].genCalls = 1
    /\ task[1].ret.analysis_source = SourceGenerated
    /\ task[2].pc = "returned" /\ task[2].genCalls = 1
    /\ IsHeuristicRecord(task[2].ret)

\* C7: one call of analyze_code_file calls the generation service at most
\* once; after the one attempt it returns, with the heuristic record if the
\* attempt gave nothing usable.
C7_AtMostOneCall ==
    \A i \in DOMAIN task :
        /\ task[i].genCalls <= 1
        /\ task[i].pc \in {"extract", "blocked"} => task[i].genCalls = 1
        /\ task[i].pc \in {"queued", "getsize", "size_test", "open", "generate", "except"}
              => task[i].genCalls = 0

C7_Witness_FallbackAfterOneCall ==
    \E i \in DOMAIN task :
        /\ task[i].pc = "returned"
        /\ IsHeuristicRecord(task[i].ret)
        /\ task[i].genCalls = 1

\* a step of the call of analyze_code_file that a worker has taken
TaskStep(i) ==
    \/ T_GetSize(i)
    \/ T_SizeTest(i)
    \/ T_Read(i)
    \/ T_Generate(i)
    \/ T_Extract(i)
    \/ T_Except(i, TRUE)

\* C8: a call of the generation service that the service never answers is
\* given up after a timeout: the file task that made it can take its next step
\* (towards the heuristic record), so the task and its batch come to an end.
C8_NoCallWaitsForever ==
    \A i \in DOMAIN task :
        (task[i].genCalls > 0 /\ task[i].resp # None /\ task[i].resp.shape = "never")
            => ENABLED TaskStep(i)

\* C9: analyze_code_file raises nothing; after a failed read it returns the
\* heuristic record when the second read works, and otherwise a record with
\* analysis_source error, no overall_score, and the failure text as its only
\* issue.
C9_ExceptionsBecomeRecords ==
    \A i \in DOMAIN task :
        /\ task[i].pc # "raised"
        /\ (task[i].pc = "returned" /\ task[i].reads = 2)
              => \/ \E c \in Codes : task[i].ret = heuristic_analyze(c, candidate_files[i])
                 \/ /\ Get(task[i].ret, "analysis_source") = SourceError
                    /\ Get(task[i].ret, "overall_score") = None
                    /\ Get(task[i].ret, "key_issues")
                          = PyList(<<"Error analyzing file: [Errno 13]">>)

\* C10: when the handler has ended, every valid url was handed to analyze_repo:
\* none is left behind a repository whose analysis failed.
C10_EveryRepoProcessed ==
    /\ hpc = "done" => Len(urls_left) = 0
    /\ hpc = "crashed" => Len(urls_left) = 1

SummaryCalls == {k \in DOMAIN calls : calls[k].fn = "make_repo_summary" /\ calls[k].done}

\* what the service answered in call k, as extract_json_from_text gives it
SummaryParsed(k) ==
    IF Truthy(safe_generate(calls[k].in.resp))
    THEN extract_json_from_text(safe_generate(calls[k].in.resp))
    ELSE None

HasBothFields(x) ==
    x.t = "dict" /\ "verdict" \in DOMAIN x.v /\ "summary" \in DOMAIN x.v

\* C11: make_repo_summary never raises; whenever the service call fails, gives
\* empty text, gives text with nothing to extract, or gives data of any shape
\* without both the verdict and the summary field, it returns the fallback
\* summary of the records.
C11_SummaryNeverRaises ==
    \A k \in SummaryCalls :
        /\ ~calls[k].out.raised
        /\ ~HasBothFields(SummaryParsed(k))
              => calls[k].out.val = FallbackSummary(calls[k].in.data)

IsFallback(k) ==
    /\ ~calls[k].out.raised
    /\ calls[k].out.val.t = "dict"
    /\ "summary" \in DOMAIN calls[k].out.val.v
    /\ "low_count" \in DOMAIN calls[k].out.val.v.summary

SentenceFix == "Recommend fixing issues in low-scoring files and adding tests."
SentenceHealthy == "Repository appears generally healthy; run full test suite to confirm."

\* the overall_score values of the records given to call k that are numbers
GivenScores(k) ==
    LET d == calls[k].in.data
        has == SelectSeq(d, LAMBDA r : r.overall_score # None)
    IN [i \in 1..Len(has) |-> has[i].overall_score.v]

\* C12: on the fallback path, with avg the mean of the present scores, the
\* verdict is Good for avg >= 80, Moderate for 50 <= avg < 80, Poor below 50;
\* the text gives avg (to one decimal) and the number of scores below 50, and
\* ends with the fix sentence exactly when that number is above zero, with the
\* healthy sentence exactly when it is zero.  [90, 85, 95] gives Good and 90.0;
\* [40, 45] gives Poor, 42.5 and the fix sentence.
C12_FallbackVerdictAndText ==
    \A k \in SummaryCalls :
        IsFallback(k) =>
            LET xs == GivenScores(k)
                n == Len(xs)
                total == Sum(xs)
                low == Cardinality({i \in 1..n : xs[i] < 50})
                r == calls[k].out.val.v
            IN /\ r.verdict = PyStr(IF n > 0 /\ total >= 80 * n THEN "Good"
                                    ELSE IF n > 0 /\ total >= 50 * n THEN "Moderate"
                                    ELSE "Poor")
               /\ IF n = 0 THEN r.summary.avg_text = 0
                  ELSE /\ 2 * (10 * total - r.summary.avg_text * n) <= n
                       /\ 2 * (r.summary.avg_text * n - 10 * total) <= n
               /\ r.summary.low_count = low
               /\ r.summary.total_files = Len(calls[k].in.data)
               /\ r.summary.v = (IF low > 0 THEN SentenceFix ELSE SentenceHealthy)
               /\ xs = <<90, 85, 95>> => r.verdict = PyStr("Good") /\ r.summary.avg_text = 900
               /\ xs = <<40, 45>>
                     => /\ r.verdict = PyStr("Poor")
                        /\ r.summary.avg_text = 425
                        /\ r.summary.v = SentenceFix

C12_Witness_PoorWithLowScores ==
    \E k \in SummaryCalls :
        /\ IsFallback(k)
        /\ GivenScores(k) = <<40, 45>>
        /\ Len(calls[k].in.data) = 3
        /\ calls[k].out.val.v.verdict = PyStr("Poor")

\* the positions of report_data whose record has an overall_score
Scored == {k \in 1..Len(report_data) : Get(report_data[k], "overall_score") # None}

RECURSIVE SumOver(_)
SumOver(ks) ==
    IF ks = {} THEN 0
    ELSE LET k == CHOOSE x \in ks : TRUE
         IN report_data[k].overall_score.v + SumOver(ks \ {k})

\* C13: the overall score analyze_repo computes is the mean of exactly the
\* overall_score values present in the records (records without one count for
\* nothing), and 0.0 when no record has one; then the fallback verdict is Poor.
C13_RepoScoreIsMeanOfPresent ==
    LoopOver =>
        /\ overall_score.den > 0
        /\ IF Scored = {} THEN overall_score.num = 0
           ELSE overall_score.num * Cardinality(Scored) = SumOver(Scored) * overall_score.den
        /\ (Scored = {} /\ rpc = "render" /\ repo_summary.t = "dict"
               /\ "summary" \in DOMAIN repo_summary.v
               /\ "low_count" \in DOMAIN repo_summary.v.summary)
              => repo_summary.v.verdict = PyStr("Poor")

C13_Witness_ScoredAndSkipped ==
    /\ rpc = "render"
    /\ Len(report_data) = 2
    /\ Cardinality(Scored) = 1
    /\ \E k \in 1..2 : Get(report_data[k], "analysis_source") = SourceSkipped
    /\ overall_score.num > 0

Verdicts == {PyStr("Good"), PyStr("Moderate"), PyStr("Poor"), PyStr("Unknown")}

\* C14: every summary make_repo_summary returns, from the service or from the
\* fallback, has a verdict among Good, Moderate, Poor, Unknown and a summary
\* that is a non-empty string.
C14_VerdictInEnum ==
    \A k \in SummaryCalls :
        ~calls[k].out.raised =>
            /\ HasBothFields(calls[k].out.val)
            /\ calls[k].out.val.v.verdict \in Verdicts
            /\ calls[k].out.val.v.summary.t = "str"
            /\ calls[k].out.val.v.summary.v # ""

ExtractCalls == {k \in DOMAIN calls : calls[k].fn = "extract_json_from_text" /\ calls[k].done}

ParsableFence(toks) == FenceMatch(toks).found /\ json_loads(strip(FenceMatch(toks).group)).ok

\* the places of the text where a valid {...} object stands
ValidObjects(toks) ==
    {sp \in (1..Len(toks)) \X (1..Len(toks)) :
        /\ sp[1] <= sp[2]
        /\ toks[sp[1]] = "{"
        /\ json_loads(SubSeq(toks, sp[1], sp[2])).ok}

ObjectAt(toks, sp) == json_loads(SubSeq(toks, sp[1], sp[2])).val

BraceInString(toks, sp) == \E i \in sp[1]..sp[2] : toks[i] = "b"

\* C15 as stated: with no parsable fenced block, a text that holds exactly one
\* valid {...} object, whatever other braces stand before it, after it or
\* unbalanced around it, gives that object; a candidate that does not parse
\* does not end the scan.
C15_TheOneObjectIsFound ==
    \A k \in ExtractCalls :
        LET toks == calls[k].in.text IN
        (~ParsableFence(toks) /\ Cardinality(ValidObjects(toks)) = 1)
            => \A sp \in ValidObjects(toks) : calls[k].out = ObjectAt(toks, sp)

\* C15 as amended: the same for an object that has no brace inside a string;
\* and a text with no valid object gives nothing.
C15_TheOneStructuralObjectIsFound ==
    \A k \in ExtractCalls :
        LET toks == calls[k].in.text IN
        ~ParsableFence(toks) =>
            /\ Cardinality(ValidObjects(toks)) = 1
                  => \A sp \in ValidObjects(toks) :
                        ~BraceInString(toks, sp) => calls[k].out = ObjectAt(toks, sp)
            /\ ValidObjects(toks) = {} => calls[k].out = None

C15_Witness_FoundAfterBadCandidate ==
    \E k \in ExtractCalls :
        /\ calls[k].in.text = <<"{", "{", "s", "}">>
        /\ calls[k].out = PyDict(MemberOf("s"))

\* C16: every record of report_data has file_name, and it is a string: in
\* skipped, heuristic, error and generated records, also when the object the
\* service gave has no file_name.
C16_FileNameIsString ==
    \A k \in 1..Len(report_data) :
        /\ "file_name" \in DOMAIN report_data[k]
        /\ report_data[k].file_name.t = "str"

ScoreFields == {"correctness_score", "efficiency_score", "best_practices_score",
                "overall_score"}

ListFields == {"key_issues", "recommendations"}

\* the record has every field of the object d unchanged, the neutral default in
\* every score and list field d lacks, and is tagged as generated
DefaultsFilled(d, rec) ==
    /\ \A f \in DOMAIN d : f \in DOMAIN rec /\ rec[f] = d[f]
    /\ \A f \in ScoreFields \ DOMAIN d : f \in DOMAIN rec /\ rec[f] = None
    /\ \A f \in ListFields \ DOMAIN d : f \in DOMAIN rec /\ rec[f] = PyList(<<>>)
    /\ "analysis_source" \in DOMAIN rec /\ rec.analysis_source = SourceGenerated

\* C17 as stated: when an object is extracted from the service's text, the
\* task returns it as a generated record, with the absent score fields null,
\* the absent list fields empty and its own fields unchanged.
C17_AbsentFieldsGetDefaults ==
    [][\A i \in DOMAIN task :
          (task[i].pc = "extract" /\ task'[i] # task[i] /\ ObjectExtracted(task[i].resp))
              => /\ task'[i].pc = "returned"
                 /\ DefaultsFilled(extract_json_from_text(task[i].ai_text).v, task'[i].ret)]_task

\* C17 as amended: the same when the object extracted is not empty.
C17_AbsentFieldsOfNonEmptyObjectGetDefaults ==
    [][\A i \in DOMAIN task :
          (task[i].pc = "extract" /\ task'[i] # task[i] /\ NonEmptyObjectExtracted(task[i].resp))
              => /\ task'[i].pc = "returned"
                 /\ DefaultsFilled(extract_json_from_text(task[i].ai_text).v, task'[i].ret)]_task

C17_Witness_ScoreKeptOthersFilled ==
    \E i \in DOMAIN task :
        /\ task[i].pc = "returned"
        /\ Get(task[i].ret, "analysis_source") = SourceGenerated
        /\ task[i].ret.overall_score = PyInt(80)
        /\ task[i].ret.file_name = PyStr("svc.py")
        /\ task[i].ret.correctness_score = None
        /\ task[i].ret.key_issues = PyList(<<>>)

HeuristicCalls == {k \in DOMAIN calls : calls[k].fn = "heuristic_analyze" /\ calls[k].done}

C19_SubScores ==
    \A k \in HeuristicCalls :
        LET code == calls[k].in.code
            base == BaseScore(code)
            r == calls[k].out
            total == r.correctness_score.v + r.efficiency_score.v + r.best_practices_score.v
        IN /\ base >= 10 /\ base <= 95
           /\ r.correctness_score.v = Clamp(5, 100, base - 5)
           /\ r.efficiency_score.v
                 = Clamp(5, 100, IF "for..:\\n for" \in code.marks THEN base - 15 ELSE base - 5)
           /\ r.best_practices_score.v
                 = Clamp(5, 100, IF code.marks \cap {"\"\"\"", "''' ", "def "} # {}
                                 THEN base + 5 ELSE base)
           /\ 2 * (3 * r.overall_score.v - total) <= 3
           /\ 2 * (total - 3 * r.overall_score.v) <= 3

\* C20 as stated: for every number n of candidate files the pool has
\* min(4, n) workers, at least one, and no more than n; never more than
\* min(4, n) file tasks run at once.
C20_PoolIsMinOfCeilingAndFiles ==
    rpc = "dispatch" =>
        LET n == Len(candidate_files) IN
        /\ max_workers = (IF n < 4 THEN n ELSE 4)
        /\ max_workers >= 1
        /\ max_workers <= n
        /\ Cardinality(Running) <= (IF n < 4 THEN n ELSE 4)

\* C20 as amended: the same for every n >= 1; with no candidate file the pool
\* has one worker and no task runs.
C20_PoolIsMinOfCeilingAndFilesFromOne ==
    rpc = "dispatch" =>
        LET n == Len(candidate_files) IN
        /\ n >= 1 => /\ max_workers = (IF n < 4 THEN n ELSE 4)
                     /\ max_workers >= 1
                     /\ max_workers <= n
                     /\ Cardinality(Running) <= (IF n < 4 THEN n ELSE 4)
        /\ n = 0 => max_workers = 1 /\ Running = {}

C20_Witness_FifthFileWaits ==
    /\ Len(candidate_files) = 5
    /\ Cardinality(Running) = 4
    /\ task[5].pc = "queued"
    /\ \A i \in 1..4 : task[i].pc = "open"
====
